---- MODULE Spec2Model ----
(***************************************************************************)
(* A model of the circuit breaker of billglover/breaker (src/breaker.go).  *)
(*                                                                         *)
(* The Breaker struct is the shared state.  Every exported method is       *)
(* called by a caller p; the steps of a call are named after the source    *)
(* line they model (P137 is line 137 of Protect, L95r/L95w the read and    *)
(* the write of failCount++ on line 95, ...), one step per access to the   *)
(* shared fields, so that concurrent callers interleave as goroutines do   *)
(* on a breaker that takes no lock.  Time is an integer clock.             *)
(*                                                                         *)
(* Spec is sequential use (one caller); ConcSpec is concurrent use.        *)
(***************************************************************************)
EXTENDS Integers, Sequences, FiniteSets

\* ---------------------------------------------------------------- bounds
NumProcs == 2      \* callers in concurrent use
MaxN == 2          \* thresholds 1..MaxN are tried with TripAfter
MaxCooldown == 1   \* cooldowns 0..MaxCooldown are tried with ResetAfter
MaxTime == 2       \* the clock runs from 0 to MaxTime
MaxSubs == 1       \* Subscribe is called at most MaxSubs times
MaxCount == 2      \* the operation succeeds only while successCount < MaxCount
ConcCalls == 2     \* Protect/Reset calls made in concurrent use

\* ------------------------------------------------------- program constants
StateOpen == 0
StateClosed == 1
StatePartial == 2
DefaultTripAfter == 5
DefaultResetAfter == 50
SinkCap == 1

State == {StateOpen, StateClosed, StatePartial}

\* The zero time.Time of a fresh Breaker{}: long before any clock reading.
ZeroTime == 0 - 1000

NilErr == "nil"
ErrBreakerOpen == "breaker open"
\* The errors a protected operation may return.
OpErrors == {"e1", "e2"}
NoRet == "none"
Unlimited == 0 - 1

Procs == 1..NumProcs
Main == 1
Sinks == 1..MaxSubs

VARIABLES
  \* the Breaker struct
  state, failCount, successCount, lastFail, subscribers,
  tripN,        \* the n captured by the shouldTrip closure
  resetT,       \* the t captured by the shouldReset closure
  chan,         \* chan[c]: the buffer of channel c (capacity SinkCap)
  \* the environment
  now,          \* time.Now()
  callers,      \* the goroutines that call the breaker
  budget,       \* Protect/Reset calls still to be made (Unlimited: any number)
  used,         \* a Protect or Reset call has been made
  history,      \* whether the calls' histories are recorded
  tripSet,      \* TripAfter has been called since NewBreaker returned
  \* each caller's position and locals
  pc, retpc, err, ret, tmp, nstate, nsubs, ni,
  \* history of each caller's current (or last) call
  op,           \* "none", "Protect", "Reset"
  entry,        \* the breaker's fields when the call started
  chkNow,       \* the clock when the call evaluated shouldReset (-1: never)
  invoked,      \* times the call invoked the protected operation
  pushes,       \* pushes[p][c]: the states the call pushed to channel c
  trans,        \* the values the call's changes of state gave to state
  \* history of the breaker
  fresh, nFail, nSucc,      \* first epoch: outcomes seen before any reset
  failedAt,     \* the clock when an operation last returned an error
  trialCalls,   \* operations invoked in Partial since the last entry to Partial
  partialCount, \* partial() calls since state last became Open
  pending       \* pending[c]: the last value pushed to channel c, until it is received

breakerVars == <<state, failCount, successCount, lastFail, subscribers, tripN, resetT, chan>>
envVars == <<now, callers, budget, used, history, tripSet>>
localVars == <<pc, retpc, err, ret, tmp, nstate, nsubs, ni>>
callHist == <<op, entry, chkNow, invoked, pushes, trans>>
brkHist == <<fresh, nFail, nSucc, failedAt, trialCalls, partialCount, pending>>
vars == <<breakerVars, envVars, localVars, callHist, brkHist>>

NoPushes == [c \in Sinks |-> <<>>]
NoEntry == [state |-> StateClosed, failCount |-> 0, successCount |-> 0,
            lastFail |-> ZeroTime, subs |-> 0, tripN |-> 0, resetT |-> 0]
Snapshot == [state |-> state, failCount |-> failCount, successCount |-> successCount,
             lastFail |-> lastFail, subs |-> Len(subscribers),
             tripN |-> tripN, resetT |-> resetT]

\* ------------------------------------------------------------- policies
\* TripAfter's closure: b.FailCount() >= n
shouldTripGT == failCount > tripN
shouldTrip == failCount >= tripN

\* ResetAfter's closure: time.Now().After(b.lastFail.Add(t))
shouldResetNoAdd == now > lastFail

shouldResetGE == now >= lastFail + resetT
shouldReset == now > lastFail + resetT

\* --------------------------------------------------------------- Init
\* NewBreaker(): Breaker{}, state = StateClosed, TripAfter(5), ResetAfter(50ms)
NewBreakerLater ==
  /\ state = StateClosed
  /\ failCount = 0
  /\ successCount = 0
  /\ lastFail = ZeroTime
  /\ subscribers = <<>>
  /\ tripN = DefaultTripAfter + 1
  /\ resetT = DefaultResetAfter
  /\ chan = [c \in Sinks |-> <<>>]

NewBreaker ==
  /\ state = StateClosed
  /\ failCount = 0
  /\ successCount = 0
  /\ lastFail = ZeroTime
  /\ subscribers = <<>>
  /\ tripN = DefaultTripAfter
  /\ resetT = DefaultResetAfter
  /\ chan = [c \in Sinks |-> <<>>]

InitRest ==
  /\ now = 0
  /\ used = FALSE
  /\ tripSet = FALSE
  /\ pc = [p \in Procs |-> "idle"]
  /\ retpc = [p \in Procs |-> "idle"]
  /\ err = [p \in Procs |-> NilErr]
  /\ ret = [p \in Procs |-> NoRet]
  /\ tmp = [p \in Procs |-> 0]
  /\ nstate = [p \in Procs |-> StateClosed]
  /\ nsubs = [p \in Procs |-> <<>>]
  /\ ni = [p \in Procs |-> 1]
  /\ op = [p \in Procs |-> "none"]
  /\ entry = [p \in Procs |-> NoEntry]
  /\ chkNow = [p \in Procs |-> -1]
  /\ invoked = [p \in Procs |-> 0]
  /\ pushes = [p \in Procs |-> NoPushes]
  /\ trans = [p \in Procs |-> <<>>]
  /\ fresh = TRUE
  /\ nFail = 0
  /\ nSucc = 0
  /\ failedAt = ZeroTime
  /\ trialCalls = 0
  /\ partialCount = 0
  /\ pending = [c \in Sinks |-> <<>>]

Init == NewBreaker /\ InitRest /\ callers = {Main} /\ budget = Unlimited /\ history = TRUE

\* The breaker after TripAfter(n), ResetAfter(t), k Subscribe calls and n failed
\* Protect calls, all at time 0, made one at a time: Open, with Open in every sink.
Tripped(n, t, k) ==
  /\ state = StateOpen
  /\ failCount = n
  /\ successCount = 0
  /\ lastFail = 0
  /\ subscribers = [c \in 1..k |-> c]
  /\ tripN = n
  /\ resetT = t
  /\ chan = [c \in Sinks |-> IF c <= k THEN <<StateOpen>> ELSE <<>>]
  /\ now = 0
  /\ used = TRUE
  /\ tripSet = TRUE
  /\ pc = [p \in Procs |-> "idle"]
  /\ retpc = [p \in Procs |-> "idle"]
  /\ err = [p \in Procs |-> NilErr]
  /\ ret = [p \in Procs |-> NoRet]
  /\ tmp = [p \in Procs |-> 0]
  /\ nstate = [p \in Procs |-> StateClosed]
  /\ nsubs = [p \in Procs |-> <<>>]
  /\ ni = [p \in Procs |-> 1]
  /\ op = [p \in Procs |-> "none"]
  /\ entry = [p \in Procs |-> NoEntry]
  /\ chkNow = [p \in Procs |-> -1]
  /\ invoked = [p \in Procs |-> 0]
  /\ pushes = [p \in Procs |-> NoPushes]
  /\ trans = [p \in Procs |-> <<>>]
  /\ fresh = TRUE
  /\ nFail = n
  /\ nSucc = 0
  /\ failedAt = 0
  /\ trialCalls = 0
  /\ partialCount = 0
  /\ pending = [c \in Sinks |-> IF c <= k THEN <<StateOpen>> ELSE <<>>]

\* Concurrent use starts on a new breaker or on one that has tripped.
ConcInit ==
  /\ \/ NewBreaker /\ InitRest
     \/ \E n \in 1..MaxN, t \in 0..MaxCooldown, k \in 0..MaxSubs : Tripped(n, t, k)
  /\ callers = Procs
  /\ budget = ConcCalls
  /\ history = FALSE

\* ------------------------------------------------------ configuration
\* TripAfter(n), before first use
TripAfter(n) ==
  /\ ~used
  /\ \A p \in Procs : pc[p] = "idle"
  /\ tripN' = n
  /\ tripSet' = TRUE
  /\ UNCHANGED <<state, failCount, successCount, lastFail, subscribers, resetT, chan,
                 now, callers, budget, used, history, localVars, callHist, brkHist>>

\* ResetAfter(t), before first use
ResetAfter(t) ==
  /\ ~used
  /\ \A p \in Procs : pc[p] = "idle"
  /\ resetT' = t
  /\ UNCHANGED <<state, failCount, successCount, lastFail, subscribers, tripN, chan,
                 envVars, localVars, callHist, brkHist>>

\* ------------------------------------------------------- environment
\* the clock advances
Tick ==
  /\ now < MaxTime
  /\ now' = now + 1
  /\ UNCHANGED <<breakerVars, callers, budget, used, history, tripSet, localVars, callHist, brkHist>>

\* a subscriber receives from its channel c
Recv(c) ==
  /\ c <= Len(subscribers)
  /\ chan[c] # <<>>
  /\ chan' = [chan EXCEPT ![c] = Tail(@)]
  /\ pending' = [pending EXCEPT ![c] = <<>>]
  /\ UNCHANGED <<state, failCount, successCount, lastFail, subscribers, tripN, resetT,
                 envVars, localVars, callHist,
                 fresh, nFail, nSucc, failedAt, trialCalls, partialCount>>

\* ------------------------------------------------------------ helpers
Min(a, b) == IF a < b THEN a ELSE b
\* a history variable takes its new value only where histories are recorded
Rec(old, new) == IF history THEN new ELSE old
Goto(p, l) == pc' = [pc EXCEPT ![p] = l]
\* a call of trip(), partial() or Reset(): jump to its first line, remember where to return
Call(p, l, back) == /\ pc' = [pc EXCEPT ![p] = l]
                    /\ retpc' = [retpc EXCEPT ![p] = back]
\* the history of a call that starts
StartCall(p, kind) ==
  /\ op' = Rec(op, [op EXCEPT ![p] = kind])
  /\ entry' = Rec(entry, [entry EXCEPT ![p] = Snapshot])
  /\ chkNow' = [chkNow EXCEPT ![p] = -1]
  /\ invoked' = [invoked EXCEPT ![p] = 0]
  /\ pushes' = [pushes EXCEPT ![p] = NoPushes]
  /\ trans' = [trans EXCEPT ![p] = <<>>]
  /\ ret' = [ret EXCEPT ![p] = NoRet]
  /\ err' = [err EXCEPT ![p] = NilErr]
  /\ budget' = IF budget = Unlimited THEN budget ELSE budget - 1
  /\ used' = TRUE

\* ------------------------------------------------------------ Protect
\* line 137: Protect is entered and reads b.state
Protect(p) ==
  /\ p \in callers
  /\ pc[p] = "idle"
  /\ budget # 0
  /\ StartCall(p, "Protect")
  /\ Goto(p, IF state = StateOpen THEN "P138" ELSE "P146")
  /\ UNCHANGED <<breakerVars, now, callers, history, tripSet, retpc, tmp, nstate, nsubs, ni, brkHist>>

P138Postpone(p) ==
  /\ pc[p] = "P138"
  /\ chkNow' = Rec(chkNow, [chkNow EXCEPT ![p] = now])
  /\ IF shouldReset
       THEN /\ Call(p, "L114", "P146")
            /\ ret' = ret
            /\ lastFail' = lastFail
       ELSE /\ ret' = [ret EXCEPT ![p] = ErrBreakerOpen]
            /\ Goto(p, "done")
            /\ retpc' = retpc
            /\ lastFail' = now
  /\ UNCHANGED <<state, failCount, successCount, subscribers, tripN, resetT, chan,
                 envVars, err, tmp, nstate, nsubs, ni,
                 op, entry, invoked, pushes, trans, brkHist>>

\* lines 138-141: if b.shouldReset() == false { return errors.New("breaker open") }; b.partial()
P138(p) ==
  /\ pc[p] = "P138"
  /\ chkNow' = Rec(chkNow, [chkNow EXCEPT ![p] = now])
  /\ IF shouldReset
       THEN /\ Call(p, "L114", "P146")
            /\ ret' = ret
       ELSE /\ ret' = [ret EXCEPT ![p] = ErrBreakerOpen]
            /\ Goto(p, "done")
            /\ retpc' = retpc
  /\ UNCHANGED <<breakerVars, envVars, err, tmp, nstate, nsubs, ni,
                 op, entry, invoked, pushes, trans, brkHist>>

\* line 146: err := f(), the protected operation starts
P146(p) ==
  /\ pc[p] = "P146"
  /\ Goto(p, "inF")
  /\ invoked' = Rec(invoked, [invoked EXCEPT ![p] = @ + 1])
  /\ trialCalls' = IF state = StatePartial THEN Min(trialCalls + 1, 2) ELSE trialCalls
  /\ UNCHANGED <<breakerVars, envVars, retpc, err, ret, tmp, nstate, nsubs, ni,
                 op, entry, chkNow, pushes, trans,
                 fresh, nFail, nSucc, failedAt, partialCount, pending>>

\* lines 146-147: the protected operation returns e; if err != nil
FReturn(p, e) ==
  /\ pc[p] = "inF"
  /\ e = NilErr => successCount < MaxCount
  /\ err' = [err EXCEPT ![p] = e]
  /\ Goto(p, IF e = NilErr THEN "P162" ELSE "L95r")
  /\ nFail' = IF fresh /\ e # NilErr THEN nFail + 1 ELSE nFail
  /\ nSucc' = IF fresh /\ e = NilErr THEN nSucc + 1 ELSE nSucc
  /\ failedAt' = IF e # NilErr THEN Rec(failedAt, now) ELSE failedAt
  /\ UNCHANGED <<breakerVars, envVars, retpc, ret, tmp, nstate, nsubs, ni,
                 callHist, fresh, trialCalls, partialCount, pending>>

\* line 95, fail(): b.failCount++ reads failCount
L95r(p) ==
  /\ pc[p] = "L95r"
  /\ tmp' = [tmp EXCEPT ![p] = failCount]
  /\ Goto(p, "L95w")
  /\ UNCHANGED <<breakerVars, envVars, retpc, err, ret, nstate, nsubs, ni, callHist, brkHist>>

\* line 95, fail(): b.failCount++ writes failCount
L95w(p) ==
  /\ pc[p] = "L95w"
  /\ failCount' = tmp[p] + 1
  /\ tmp' = [tmp EXCEPT ![p] = 0]
  /\ Goto(p, "L96")
  /\ UNCHANGED <<state, successCount, lastFail, subscribers, tripN, resetT, chan,
                 envVars, retpc, err, ret, nstate, nsubs, ni, callHist, brkHist>>

L96Keep(p) ==
  /\ pc[p] = "L96"
  /\ Goto(p, "P150")
  /\ UNCHANGED <<breakerVars, envVars, retpc, err, ret, tmp, nstate, nsubs, ni,
                 callHist, brkHist>>

\* line 96, fail(): b.lastFail = time.Now()
L96(p) ==
  /\ pc[p] = "L96"
  /\ lastFail' = now
  /\ Goto(p, "P150")
  /\ UNCHANGED <<state, failCount, successCount, subscribers, tripN, resetT, chan,
                 envVars, retpc, err, ret, tmp, nstate, nsubs, ni, callHist, brkHist>>

\* lines 150-152: if b.CurrentState() == StatePartial { b.trip() }
P150NoCheck(p) ==
  /\ pc[p] = "P150"
  /\ Goto(p, "P154")
  /\ UNCHANGED <<breakerVars, envVars, retpc, err, ret, tmp, nstate, nsubs, ni, callHist, brkHist>>

P150(p) ==
  /\ pc[p] = "P150"
  /\ IF state = StatePartial
       THEN Call(p, "L122", "P154")
       ELSE Goto(p, "P154") /\ retpc' = retpc
  /\ UNCHANGED <<breakerVars, envVars, err, ret, tmp, nstate, nsubs, ni, callHist, brkHist>>

\* lines 154-156: if b.shouldTrip() == true { b.trip() }
P154(p) ==
  /\ pc[p] = "P154"
  /\ IF shouldTrip
       THEN Call(p, "L122", "P158")
       ELSE Goto(p, "P158") /\ retpc' = retpc
  /\ UNCHANGED <<breakerVars, envVars, err, ret, tmp, nstate, nsubs, ni, callHist, brkHist>>

\* line 158: return err
P158Wrapped(p) ==
  /\ pc[p] = "P158"
  /\ ret' = [ret EXCEPT ![p] = ErrBreakerOpen]
  /\ Goto(p, "done")
  /\ UNCHANGED <<breakerVars, envVars, retpc, err, tmp, nstate, nsubs, ni, callHist, brkHist>>

P158(p) ==
  /\ pc[p] = "P158"
  /\ ret' = [ret EXCEPT ![p] = err[p]]
  /\ Goto(p, "done")
  /\ UNCHANGED <<breakerVars, envVars, retpc, err, tmp, nstate, nsubs, ni, callHist, brkHist>>

\* lines 162-164: if b.CurrentState() == StatePartial { b.Reset() }
P162NoReset(p) ==
  /\ pc[p] = "P162"
  /\ Goto(p, "L101r")
  /\ UNCHANGED <<breakerVars, envVars, retpc, err, ret, tmp, nstate, nsubs, ni, callHist, brkHist>>

P162(p) ==
  /\ pc[p] = "P162"
  /\ IF state = StatePartial
       THEN Call(p, "L106", "L101r")
       ELSE Goto(p, "L101r") /\ retpc' = retpc
  /\ UNCHANGED <<breakerVars, envVars, err, ret, tmp, nstate, nsubs, ni, callHist, brkHist>>

\* line 101, success(): b.successCount++ reads successCount
L101r(p) ==
  /\ pc[p] = "L101r"
  /\ tmp' = [tmp EXCEPT ![p] = successCount]
  /\ Goto(p, "L101w")
  /\ UNCHANGED <<breakerVars, envVars, retpc, err, ret, nstate, nsubs, ni, callHist, brkHist>>

\* line 101, success(): b.successCount++ writes successCount
L101w(p) ==
  /\ pc[p] = "L101w"
  /\ successCount' = tmp[p] + 1
  /\ tmp' = [tmp EXCEPT ![p] = 0]
  /\ Goto(p, "P167")
  /\ UNCHANGED <<state, failCount, lastFail, subscribers, tripN, resetT, chan,
                 envVars, retpc, err, ret, nstate, nsubs, ni, callHist, brkHist>>

\* line 167: return nil
P167(p) ==
  /\ pc[p] = "P167"
  /\ ret' = [ret EXCEPT ![p] = NilErr]
  /\ Goto(p, "done")
  /\ UNCHANGED <<breakerVars, envVars, retpc, err, tmp, nstate, nsubs, ni, callHist, brkHist>>

\* ------------------------------------------------------------- partial
\* line 114, partial(): b.state = StatePartial
L114(p) ==
  /\ pc[p] = "L114"
  /\ state' = StatePartial
  /\ trans' = Rec(trans, [trans EXCEPT ![p] = IF state # StatePartial THEN Append(@, StatePartial) ELSE @])
  /\ Goto(p, "L115")
  /\ fresh' = FALSE
  /\ nFail' = 0
  /\ nSucc' = 0
  /\ trialCalls' = IF state # StatePartial THEN 0 ELSE trialCalls
  /\ partialCount' = Min(partialCount + 1, 2)
  /\ UNCHANGED <<failCount, successCount, lastFail, subscribers, tripN, resetT, chan,
                 envVars, retpc, err, ret, tmp, nstate, nsubs, ni,
                 op, entry, chkNow, invoked, pushes, failedAt, pending>>

\* line 115, partial(): b.failCount = 0
L115Keep(p) ==
  /\ pc[p] = "L115"
  /\ Goto(p, "L116")
  /\ UNCHANGED <<breakerVars, envVars, retpc, err, ret, tmp, nstate, nsubs, ni, callHist, brkHist>>

L115(p) ==
  /\ pc[p] = "L115"
  /\ failCount' = 0
  /\ Goto(p, "L116")
  /\ UNCHANGED <<state, successCount, lastFail, subscribers, tripN, resetT, chan,
                 envVars, retpc, err, ret, tmp, nstate, nsubs, ni, callHist, brkHist>>

\* lines 116-117, partial(): b.successCount = 0; b.notify(StatePartial)
L116(p) ==
  /\ pc[p] = "L116"
  /\ successCount' = 0
  /\ nstate' = [nstate EXCEPT ![p] = StatePartial]
  /\ Goto(p, "L201")
  /\ UNCHANGED <<state, failCount, lastFail, subscribers, tripN, resetT, chan,
                 envVars, retpc, err, ret, tmp, nsubs, ni, callHist, brkHist>>

\* --------------------------------------------------------------- Reset
\* Reset() called by a caller of the breaker
Reset(p) ==
  /\ p \in callers
  /\ pc[p] = "idle"
  /\ budget # 0
  /\ StartCall(p, "Reset")
  /\ Call(p, "L106", "done")
  /\ fresh' = FALSE
  /\ nFail' = 0
  /\ nSucc' = 0
  /\ UNCHANGED <<breakerVars, now, callers, history, tripSet, tmp, nstate, nsubs, ni,
                 failedAt, trialCalls, partialCount, pending>>

\* line 106, Reset(): b.state = StateClosed
L106(p) ==
  /\ pc[p] = "L106"
  /\ state' = StateClosed
  /\ trans' = Rec(trans, [trans EXCEPT ![p] = IF state # StateClosed THEN Append(@, StateClosed) ELSE @])
  /\ Goto(p, "L107")
  /\ UNCHANGED <<failCount, successCount, lastFail, subscribers, tripN, resetT, chan,
                 envVars, retpc, err, ret, tmp, nstate, nsubs, ni,
                 op, entry, chkNow, invoked, pushes, brkHist>>

L107Keep(p) ==
  /\ pc[p] = "L107"
  /\ Goto(p, "L108")
  /\ UNCHANGED <<breakerVars, envVars, retpc, err, ret, tmp, nstate, nsubs, ni,
                 callHist, brkHist>>

\* line 107, Reset(): b.failCount = 0
L107(p) ==
  /\ pc[p] = "L107"
  /\ failCount' = 0
  /\ Goto(p, "L108")
  /\ UNCHANGED <<state, successCount, lastFail, subscribers, tripN, resetT, chan,
                 envVars, retpc, err, ret, tmp, nstate, nsubs, ni, callHist, brkHist>>

L108ClearTime(p) ==
  /\ pc[p] = "L108"
  /\ successCount' = 0
  /\ lastFail' = ZeroTime
  /\ nstate' = [nstate EXCEPT ![p] = StateClosed]
  /\ Goto(p, "L201")
  /\ UNCHANGED <<state, failCount, subscribers, tripN, resetT, chan,
                 envVars, retpc, err, ret, tmp, nsubs, ni, callHist, brkHist>>

\* lines 108-109, Reset(): b.successCount = 0; b.notify(StateClosed)
L108(p) ==
  /\ pc[p] = "L108"
  /\ successCount' = 0
  /\ nstate' = [nstate EXCEPT ![p] = StateClosed]
  /\ Goto(p, "L201")
  /\ UNCHANGED <<state, failCount, lastFail, subscribers, tripN, resetT, chan,
                 envVars, retpc, err, ret, tmp, nsubs, ni, callHist, brkHist>>

\* ---------------------------------------------------------------- trip
\* lines 122-123, trip(): b.state = StateOpen; b.notify(StateOpen)
L122(p) ==
  /\ pc[p] = "L122"
  /\ state' = StateOpen
  /\ trans' = Rec(trans, [trans EXCEPT ![p] = IF state # StateOpen THEN Append(@, StateOpen) ELSE @])
  /\ nstate' = [nstate EXCEPT ![p] = StateOpen]
  /\ Goto(p, "L201")
  /\ partialCount' = IF state # StateOpen THEN 0 ELSE partialCount
  /\ UNCHANGED <<failCount, successCount, lastFail, subscribers, tripN, resetT, chan,
                 envVars, retpc, err, ret, tmp, nsubs, ni,
                 op, entry, chkNow, invoked, pushes,
                 fresh, nFail, nSucc, failedAt, trialCalls, pending>>

\* -------------------------------------------------------------- notify
\* notify() returns, and with it the trip(), partial() or Reset() that called it
NotifyReturn(p) ==
  /\ Goto(p, retpc[p])
  /\ retpc' = [retpc EXCEPT ![p] = "idle"]
  /\ nstate' = [nstate EXCEPT ![p] = StateClosed]
  /\ nsubs' = [nsubs EXCEPT ![p] = <<>>]
  /\ ni' = [ni EXCEPT ![p] = 1]

\* line 201, notify(): for _, s := range b.subscribers (the slice is read once)
L201(p) ==
  /\ pc[p] = "L201"
  /\ IF subscribers = <<>>
       THEN NotifyReturn(p)
       ELSE /\ nsubs' = [nsubs EXCEPT ![p] = subscribers]
            /\ ni' = [ni EXCEPT ![p] = 1]
            /\ Goto(p, "L209")
            /\ UNCHANGED <<retpc, nstate>>
  /\ UNCHANGED <<breakerVars, envVars, err, ret, tmp, callHist, brkHist>>

\* lines 207-213, notify(): select { case <-s: (again)  default: break out }
L209BreakOuter(p) ==
  /\ pc[p] = "L209"
  /\ LET c == nsubs[p][ni[p]] IN
       IF chan[c] # <<>>
         THEN chan' = [chan EXCEPT ![c] = Tail(@)] /\ UNCHANGED localVars
         ELSE chan' = chan /\ NotifyReturn(p) /\ UNCHANGED <<err, ret, tmp>>
  /\ UNCHANGED <<state, failCount, successCount, lastFail, subscribers, tripN, resetT,
                 envVars, callHist, brkHist>>

L209(p) ==
  /\ pc[p] = "L209"
  /\ LET c == nsubs[p][ni[p]] IN
       IF chan[c] # <<>>
         THEN chan' = [chan EXCEPT ![c] = Tail(@)] /\ pc' = pc
         ELSE chan' = chan /\ Goto(p, "L214")
  /\ UNCHANGED <<state, failCount, successCount, lastFail, subscribers, tripN, resetT,
                 envVars, retpc, err, ret, tmp, nstate, nsubs, ni, callHist, brkHist>>

\* line 214, notify(): s <- state, which blocks while the buffer is full
L214(p) ==
  /\ pc[p] = "L214"
  /\ LET c == nsubs[p][ni[p]] IN
       /\ Len(chan[c]) < SinkCap
       /\ chan' = [chan EXCEPT ![c] = Append(@, nstate[p])]
       /\ pushes' = Rec(pushes, [pushes EXCEPT ![p][c] = Append(@, nstate[p])])
       /\ pending' = [pending EXCEPT ![c] = <<nstate[p]>>]
  /\ IF ni[p] = Len(nsubs[p])
       THEN NotifyReturn(p)
       ELSE /\ Goto(p, "L209")
            /\ ni' = [ni EXCEPT ![p] = @ + 1]
            /\ UNCHANGED <<retpc, nstate, nsubs>>
  /\ UNCHANGED <<state, failCount, successCount, lastFail, subscribers, tripN, resetT,
                 envVars, err, ret, tmp,
                 op, entry, chkNow, invoked, trans,
                 fresh, nFail, nSucc, failedAt, trialCalls, partialCount>>

\* the call has returned: its caller has the result and goes on
Returned(p) ==
  /\ pc[p] = "done"
  /\ Goto(p, "idle")
  /\ err' = [err EXCEPT ![p] = NilErr]
  /\ ret' = [ret EXCEPT ![p] = NoRet]
  /\ op' = [op EXCEPT ![p] = "none"]
  /\ entry' = [entry EXCEPT ![p] = NoEntry]
  /\ chkNow' = [chkNow EXCEPT ![p] = -1]
  /\ invoked' = [invoked EXCEPT ![p] = 0]
  /\ pushes' = [pushes EXCEPT ![p] = NoPushes]
  /\ trans' = [trans EXCEPT ![p] = <<>>]
  /\ UNCHANGED <<breakerVars, envVars, retpc, tmp, nstate, nsubs, ni, brkHist>>

\* ----------------------------------------------------------- Subscribe
\* lines 195-197: c := make(chan State, 1); b.subscribers = append(b.subscribers, c)
Subscribe(p) ==
  /\ p \in callers
  /\ pc[p] = "idle"
  /\ Len(subscribers) < MaxSubs
  /\ subscribers' = Append(subscribers, Len(subscribers) + 1)
  /\ UNCHANGED <<state, failCount, successCount, lastFail, tripN, resetT, chan,
                 envVars, localVars, callHist, brkHist>>

\* ---------------------------------------------------------------- Next
ProtectStep(p) ==
  \/ Protect(p) \/ P138(p) \/ P146(p) \/ (\E e \in OpErrors \cup {NilErr} : FReturn(p, e))
  \/ L95r(p) \/ L95w(p) \/ L96(p) \/ P150(p) \/ P154(p) \/ P158(p)
  \/ P162(p) \/ L101r(p) \/ L101w(p) \/ P167(p)
  \/ L114(p) \/ L115(p) \/ L116(p)
  \/ L106(p) \/ L107(p) \/ L108(p)
  \/ L122(p) \/ L201(p) \/ L209(p) \/ L214(p) \/ Returned(p)
  \/ Subscribe(p)

Step(p) == ProtectStep(p) \/ Reset(p)

Next ==
  \/ \E n \in 1..MaxN : TripAfter(n)
  \/ \E t \in 0..MaxCooldown : ResetAfter(t)
  \/ Tick
  \/ \E c \in Sinks : Recv(c)
  \/ \E p \in Procs : Step(p)

Spec == Init /\ [][Next]_vars
ConcSpec == ConcInit /\ [][Next]_vars

\* concurrent callers that call Protect and Subscribe only, never Reset()
ProtectNext ==
  \/ \E n \in 1..MaxN : TripAfter(n)
  \/ \E t \in 0..MaxCooldown : ResetAfter(t)
  \/ Tick
  \/ \E c \in Sinks : Recv(c)
  \/ \E p \in Procs : ProtectStep(p)

ProtectSpec == ConcInit /\ [][ProtectNext]_vars

\* One caller and a tripped breaker whose dependency has recovered: every
\* operation it invokes returns nil, so the failure path is never taken.
LiveInit ==
  /\ \E n \in 1..MaxN, t \in 0..MaxCooldown, k \in 0..MaxSubs : Tripped(n, t, k)
  /\ callers = {Main}
  /\ budget = Unlimited
  /\ history = TRUE

LiveStep(p) ==
  \/ Protect(p) \/ P138(p) \/ P146(p) \/ FReturn(p, NilErr)
  \/ P162(p) \/ L101r(p) \/ L101w(p) \/ P167(p)
  \/ L114(p) \/ L115(p) \/ L116(p)
  \/ L106(p) \/ L107(p) \/ L108(p)
  \/ L201(p) \/ L209(p) \/ L214(p) \/ Returned(p)
  \/ Subscribe(p)

LiveNext ==
  \/ Tick
  \/ \E c \in Sinks : Recv(c)
  \/ LiveStep(Main)

\* the clock advances (up to MaxTime) and the caller's goroutine keeps running
LiveSpec ==
  /\ LiveInit
  /\ [][LiveNext]_vars
  /\ WF_vars(Tick)
  /\ WF_vars(LiveStep(Main))

\* ================================================================ claims
\* p's Protect call has returned and its caller has not yet gone on
Done(p) == pc[p] = "done" /\ op[p] = "Protect"
\* p's call found the breaker Open and evaluated the reset policy
Checked(p) == op[p] = "Protect" /\ entry[p].state = StateOpen /\ chkNow[p] # -1
\* the cooldown had elapsed when p's call evaluated the reset policy
Elapsed(p) == chkNow[p] > entry[p].lastFail + resetT
\* the sinks registered when p's call started
SinksOf(p) == 1..entry[p].subs
\* p's call was a trial call: it found the breaker Open and invoked the operation
Trial(p) == Done(p) /\ entry[p].state = StateOpen /\ invoked[p] = 1
Last(q) == q[Len(q)]

\* C1: on a fresh breaker with threshold tripN, between calls the breaker is Closed
\* while fewer than tripN operations have failed, and Open as soon as the tripN-th
\* has, with failCount = tripN and successCount = the number of successes so far.
C1_TripsAtNthFailure ==
  (fresh /\ pc[Main] \in {"idle", "done"}) =>
     /\ nFail < tripN => state = StateClosed
     /\ nFail >= tripN => /\ state = StateOpen
                          /\ nFail = tripN
                          /\ failCount = tripN
                          /\ successCount = nSucc

C1_Witness ==
  /\ fresh /\ Done(Main) /\ err[Main] # NilErr
  /\ tripN >= 2 /\ nFail = tripN /\ nSucc >= 1 /\ state = StateOpen

\* C2: a Protect call that finds the breaker Open before the cooldown has elapsed
\* returns "breaker open", never invokes the operation, pushes nothing, and leaves
\* state, failCount, successCount and lastFail as they were.
C2_RejectChangesNothing ==
  \A p \in Procs :
    (Done(p) /\ Checked(p) /\ ~Elapsed(p)) =>
       /\ ret[p] = ErrBreakerOpen
       /\ invoked[p] = 0
       /\ state = entry[p].state
       /\ failCount = entry[p].failCount
       /\ successCount = entry[p].successCount
       /\ lastFail = entry[p].lastFail
       /\ pushes[p] = NoPushes

C2_Witness ==
  /\ Done(Main) /\ Checked(Main) /\ ret[Main] = ErrBreakerOpen
  /\ chkNow[Main] = entry[Main].lastFail + resetT
  /\ Len(subscribers) >= 1 /\ failCount >= 2

\* C3: a Protect call that finds the breaker Open after the cooldown has elapsed
\* runs the operation with state = Partial, both counters zero and Partial pushed
\* once to every sink, and runs it exactly once.
C3_PartialBeforeOperation ==
  \A p \in Procs :
    (Checked(p) /\ Elapsed(p)) =>
       /\ pc[p] = "inF" => /\ state = StatePartial
                           /\ failCount = 0
                           /\ successCount = 0
                           /\ invoked[p] = 1
                           /\ \A c \in SinksOf(p) : pushes[p][c] = <<StatePartial>>
       /\ invoked[p] = 0 => pc[p] \in {"L114", "L115", "L116", "L201", "L209", "L214", "P146"}
       /\ pc[p] = "done" => invoked[p] = 1

C3_Witness ==
  /\ Checked(Main) /\ Elapsed(Main) /\ pc[Main] = "inF"
  /\ entry[Main].failCount >= 2 /\ entry[Main].subs >= 1
  /\ pushes[Main][1] = <<StatePartial>>

\* C4: when a trial call whose operation succeeded returns, the state is Closed,
\* failCount = 0, successCount = 1, and the call returns nil.
C4_TrialSuccessCloses ==
  \A p \in Procs :
    (Trial(p) /\ err[p] = NilErr) =>
       /\ state = StateClosed
       /\ failCount = 0
       /\ successCount = 1
       /\ ret[p] = NilErr

C4_Witness ==
  /\ Trial(Main) /\ err[Main] = NilErr /\ state = StateClosed
  /\ entry[Main].failCount >= 2

\* C5: when a trial call whose operation failed returns, the state is Open with
\* failCount = 1 and successCount = 0, whatever the threshold.
C5_TrialFailureReopens ==
  \A p \in Procs :
    (Trial(p) /\ err[p] # NilErr) =>
       /\ state = StateOpen
       /\ failCount = 1
       /\ successCount = 0

C5_Witness ==
  /\ Trial(Main) /\ err[Main] # NilErr /\ state = StateOpen
  /\ tripN >= 2 /\ entry[Main].failCount = tripN

\* C6: a Protect call invokes the operation at most once, and returns in one of
\* three ways: rejected ("breaker open", operation not invoked, state Open on entry);
\* invoked once, succeeded, nil; invoked once, failed, the operation's own error.
C6_ThreeOutcomes ==
  \A p \in Procs :
    /\ invoked[p] <= 1
    /\ Done(p) =>
         \/ ret[p] = ErrBreakerOpen /\ invoked[p] = 0 /\ entry[p].state = StateOpen
         \/ ret[p] = NilErr /\ invoked[p] = 1 /\ err[p] = NilErr
         \/ ret[p] \in OpErrors /\ invoked[p] = 1 /\ err[p] = ret[p]

C6_Witness == Done(Main) /\ invoked[Main] = 1 /\ ret[Main] = "e2"

\* C7: at most one operation is invoked between an entry to Partial and the next
\* change of state, and partial() runs at most once per Open episode.
C7_SingleTrial == trialCalls <= 1 /\ partialCount <= 1

\* C8: a call pushes to every sink exactly the states its transitions produced, one
\* push per transition (a Reset call: one push of Closed), and nothing else.
C8_OnePushPerTransition ==
  \A p \in Procs :
    pc[p] = "done" =>
      \A c \in SinksOf(p) :
        /\ op[p] = "Protect" => pushes[p][c] = trans[p]
        /\ op[p] = "Reset" => pushes[p][c] = <<StateClosed>>

\* C9: no caller is ever stuck sending to a full sink with no other call in
\* progress that could drain it.
C9_NoCallerStuck ==
  \A p \in Procs :
    ~ /\ pc[p] = "L214"
      /\ Len(chan[nsubs[p][ni[p]]]) >= SinkCap
      /\ \A q \in Procs \ {p} : pc[q] \in {"idle", "done"}

\* p is between a write of state and the end of the notify() that follows it
InNotify(p) == pc[p] \in {"L107", "L108", "L115", "L116", "L201", "L209", "L214"}

\* C10: a sink never holds more than one value, and what it holds is the last value
\* pushed to it; between transitions a sink holds the current state unless that was
\* received or nothing was ever pushed; and a call that made a transition leaves the
\* current state, pushed last, in every sink registered when it started.
C10_SinkHoldsNewest ==
  /\ \A c \in Sinks : Len(chan[c]) <= 1
  /\ \A c \in Sinks : chan[c] # <<>> => chan[c] = pending[c]
  /\ ~InNotify(Main) =>
       \A c \in 1..Len(subscribers) : chan[c] = pending[c] /\ chan[c] \in {<<>>, <<state>>}
  /\ \A p \in Procs :
       (pc[p] = "done" /\ (trans[p] # <<>> \/ op[p] = "Reset")) =>
          \A c \in SinksOf(p) :
            /\ pushes[p][c] # <<>>
            /\ Last(pushes[p][c]) = state
            /\ chan[c] = <<state>> \/ pending[c] = <<>>

C10_Witness ==
  /\ Done(Main) /\ entry[Main].subs >= 1
  /\ pushes[Main][1] = <<StatePartial, StateClosed>>
  /\ chan[1] = <<StateClosed>> /\ state = StateClosed

\* a Reset() has just returned to p: the public call, or the one line 163 makes
\* for a trial call whose operation succeeded
ResetReturned(p) ==
  \/ pc[p] = "done" /\ op[p] = "Reset"
  \/ /\ pc[p] = "L101r" /\ op[p] = "Protect"
     /\ trans[p] # <<>> /\ Last(trans[p]) = StateClosed

\* C11: when Reset() returns, from whichever state and counters it was called with,
\* the breaker is Closed with failCount = 0 and successCount = 0, Closed was the
\* last state pushed to every sink (the only one for a public call), and lastFail,
\* the threshold, the cooldown and the subscribers are those of the call's entry.
C11_ResetForcesClosed ==
  \A p \in Procs :
    ResetReturned(p) =>
       /\ state = StateClosed
       /\ failCount = 0
       /\ successCount = 0
       /\ \A c \in SinksOf(p) :
            /\ pushes[p][c] # <<>>
            /\ Last(pushes[p][c]) = StateClosed
            /\ op[p] = "Reset" => pushes[p][c] = <<StateClosed>>
       /\ lastFail = entry[p].lastFail
       /\ tripN = entry[p].tripN
       /\ resetT = entry[p].resetT
       /\ Len(subscribers) = entry[p].subs

C11_Witness ==
  /\ pc[Main] = "done" /\ op[Main] = "Reset"
  /\ entry[Main].state = StateOpen /\ entry[Main].failCount >= 2
  /\ entry[Main].lastFail # ZeroTime /\ entry[Main].subs >= 1
  /\ state = StateClosed /\ failCount = 0

\* a Reset() called in Partial has returned
C11_WitnessPartial ==
  /\ pc[Main] = "L101r" /\ entry[Main].state = StateOpen
  /\ trans[Main] = <<StatePartial, StateClosed>> /\ state = StateClosed

\* C12: the reset policy is a strict inequality on the clock. A Protect call that
\* finds the breaker Open with last failure at t and cooldown d, and evaluates the
\* policy at a time <= t + d, is rejected without invoking the operation; at any
\* time > t + d (t + d + 1 being the first) it is not rejected, enters Partial
\* first, and invokes the operation.
C12_StrictCooldown ==
  \A p \in Procs :
    Checked(p) =>
       /\ chkNow[p] <= entry[p].lastFail + resetT =>
            /\ pc[p] = "done"
            /\ ret[p] = ErrBreakerOpen
            /\ invoked[p] = 0
            /\ trans[p] = <<>>
       /\ chkNow[p] >= entry[p].lastFail + resetT + 1 =>
            /\ ret[p] # ErrBreakerOpen
            /\ trans[p] # <<>> => trans[p][1] = StatePartial
            /\ invoked[p] = 1 => trans[p] # <<>>
            /\ pc[p] = "done" => invoked[p] = 1

C12_Witness ==
  /\ Checked(Main) /\ resetT >= 1
  /\ chkNow[Main] = entry[Main].lastFail + resetT + 1
  /\ pc[Main] = "inF" /\ state = StatePartial

\* C13: the breaker NewBreaker() returns is Closed with failCount = 0 and
\* successCount = 0, and its threshold is 5: while TripAfter has not been called,
\* it is still Closed after four failed operations and Open after the fifth.
C13_DefaultThreshold ==
  /\ ~used => state = StateClosed /\ failCount = 0 /\ successCount = 0
  /\ (~tripSet /\ fresh /\ pc[Main] \in {"idle", "done"}) =>
        /\ nFail <= 4 => state = StateClosed /\ failCount = nFail
        /\ nFail >= 5 => state = StateOpen /\ nFail = 5 /\ failCount = 5

C13_Witness ==
  /\ ~tripSet /\ fresh /\ Done(Main) /\ err[Main] # NilErr
  /\ entry[Main].state = StateClosed /\ entry[Main].failCount = 4
  /\ nFail = 5 /\ state = StateOpen

\* the four transitions of the state machine
Edges == {<<StateClosed, StateOpen>>, <<StateOpen, StatePartial>>,
          <<StatePartial, StateOpen>>, <<StatePartial, StateClosed>>}

\* C14: with concurrent Protect calls and no Reset call, every change of state
\* follows one of the four edges Closed -> Open, Open -> Partial, Partial -> Open,
\* Partial -> Closed.
C14_OnlyFourEdges == [][state' # state => <<state, state'>> \in Edges]_vars

\* C15: in sequential use, a call that finds the breaker Open runs the operation
\* only at a time later than failedAt + resetT, failedAt being the time the most
\* recent failed operation returned (a failed trial call included), and lastFail
\* is never earlier than that time.
C15_CooldownFromLastFailure ==
  /\ \A p \in Procs :
       (pc[p] = "inF" /\ entry[p].state = StateOpen) =>
          /\ chkNow[p] > failedAt + resetT
          /\ now > failedAt + resetT
  /\ pc[Main] \in {"idle", "done"} => lastFail >= failedAt

C15_Witness ==
  /\ pc[Main] = "inF" /\ entry[Main].state = StateOpen
  /\ tripN = 2 /\ entry[Main].failCount = 1
  /\ failedAt >= 1 /\ entry[Main].lastFail = failedAt

\* C16: lastFail changes only in the step of fail() taken by a Protect call whose
\* operation returned an error, and its new value is the current time; no other
\* step (a successful or rejected Protect, Reset, the entry to Partial, Subscribe,
\* TripAfter, ResetAfter) changes it.
C16_LastFailOnlyOnFailure ==
  [][lastFail' # lastFail =>
       \E p \in Procs : /\ pc[p] = "L96" /\ pc'[p] = "P150"
                        /\ op[p] = "Protect" /\ invoked[p] = 1
                        /\ err[p] \in OpErrors
                        /\ lastFail' = now]_vars

C16_Witness ==
  /\ pc[Main] = "P150" /\ err[Main] \in OpErrors
  /\ lastFail = now /\ now >= 1 /\ entry[Main].lastFail # lastFail

\* C17: for concurrent Protect calls that all start on a fresh Closed breaker whose
\* threshold is larger than the number of calls, once all calls have returned
\* failCount is the number of operations that failed and successCount the number
\* that succeeded.
C17_NoLostIncrement ==
  (/\ fresh
   /\ \A p \in Procs : pc[p] \in {"idle", "done"}
   /\ tripN > nFail + nSucc) =>
     /\ failCount = nFail
     /\ successCount = nSucc

\* C18: in sequential use the breaker is never left in Partial: whenever no call
\* is in progress the state is Closed or Open, and a call that entered Partial has
\* left it by the time it returns.
C18_NeverLeftPartial ==
  /\ pc[Main] \in {"idle", "done"} => state \in {StateClosed, StateOpen}
  /\ state = StatePartial =>
        /\ op[Main] = "Protect" /\ entry[Main].state = StateOpen
        /\ trans[Main] = <<StatePartial>>

C18_Witness ==
  /\ Done(Main) /\ err[Main] \in OpErrors
  /\ trans[Main] = <<StatePartial, StateOpen>> /\ state = StateOpen

\* C19: in sequential use, between calls: Closed implies failCount < tripN; Open
\* implies failCount = tripN (tripped from Closed) or failCount = 1 (failed
\* trial); so failCount never exceeds tripN after a completed call.
C19_FailCountBounded ==
  pc[Main] \in {"idle", "done"} =>
     /\ tripN >= 1
     /\ state = StateClosed => failCount < tripN
     /\ state = StateOpen => failCount = tripN \/ failCount = 1
     /\ failCount <= tripN

C19_Witness ==
  /\ Done(Main) /\ state = StateOpen
  /\ tripN = 2 /\ failCount = 1 /\ entry[Main].failCount = 2

\* C20: in sequential use with a recovered dependency, a clock that keeps
\* advancing and a caller that keeps calling Protect, an Open breaker eventually
\* becomes Closed; and a rejected call leaves lastFail and the cooldown as they
\* were, so it does not postpone the end of the cooldown.
C20_EventuallyCloses ==
  /\ (state = StateOpen) ~> (state = StateClosed)
  /\ [][(pc[Main] = "P138" /\ pc'[Main] = "done") =>
         (lastFail' = lastFail /\ resetT' = resetT)]_vars

C20_Witness ==
  /\ Trial(Main) /\ err[Main] = NilErr /\ state = StateClosed
  /\ resetT >= 1 /\ chkNow[Main] = entry[Main].lastFail + resetT + 1
  /\ successCount = 1

====
